---- MODULE Spec2Model ----
(***************************************************************************)
(* Fifth Grade Optimizer API: the JSON-RPC route POST /a2a/optimizer, the  *)
(* REST route POST /optimize (main.py) and the OptimizerAgent with its     *)
(* retrying provider call (agents/optimizer_agent.py), over the schema of  *)
(* models/a2a.py.                                                          *)
(*                                                                         *)
(* A Python str is a sequence of symbols.  Texts a caller sends are built  *)
(* from the symbols " " (whitespace) and "a" (anything else); the fixed    *)
(* sentences the agent and the provider produce are single symbols, since  *)
(* no operation looks inside them.  An Optional[str] is a record           *)
(* [isNone, s].  A JSON value of an envelope field is a record [t, v].     *)
(***************************************************************************)
EXTENDS Integers, Sequences, FiniteSets, TLC

VARIABLES
    optimizer_agent,  \* main.py global: "None" or "agent"
    pc,               \* "idle" | "post" | "sleep" | "done"
    request,          \* the request being served
    messages,         \* process_messages: the message list
    task_id,          \* process_messages: task_id after defaulting
    context_id,       \* process_messages: context_id after defaulting
    input_text,       \* process_messages: the extracted text
    attempt,          \* _call_gemini_with_retry: loop index
    wait,             \* _call_gemini_with_retry: the pending sleep
    outcomes,         \* provider outcome of every POST issued, in order
    posts,            \* number of POSTs issued to the provider
    waits,            \* the sleeps completed, in order
    invoked,          \* process_messages was called for this request
    call,             \* how _call_gemini_with_retry ended, once it has
    task_result,      \* the TaskResult process_messages returned, if any
    response          \* the HTTP response, once pc = "done"

vars == <<optimizer_agent, pc, request, messages, task_id, context_id,
          input_text, attempt, wait, outcomes, posts, waits, invoked, call,
          task_result, response>>

----------------------------------------------------------------------------
(* Bounds of the model *)

MaxParts == 2
MaxMsgs == 2

(* def _call_gemini_with_retry(self, text, max_retries: int = 3) *)
MaxRetries == 3

----------------------------------------------------------------------------
(* Values *)

None == "None"

TextNone == [isNone |-> TRUE, s |-> <<>>]
Text(s) == [isNone |-> FALSE, s |-> s]

JAbsent == [t |-> "absent", v |-> ""]
JNull == [t |-> "null", v |-> ""]
JStr(x) == [t |-> "str", v |-> x]
JNum(x) == [t |-> "num", v |-> x]

(* The strings a caller puts in a part: empty, whitespace only, plain,     *)
(* and padded with whitespace on either side.                              *)
CallerStrings ==
    { <<>>, <<" ">>, <<"a">>, <<" ", "a", " ">> }

MessagePart(kind, text) == [kind |-> kind, text |-> text]

(* MessagePart: kind is one of text, data, file; text is optional whatever *)
(* the kind.                                                               *)
PartValues ==
    { MessagePart("text", t) : t \in {TextNone} \cup { Text(s) : s \in CallerStrings } }
    \cup { MessagePart("file", TextNone), MessagePart("data", Text(<<"a">>)) }

A2AMessage(role, parts, taskId) == [role |-> role, parts |-> parts, taskId |-> taskId]

SeqsUpTo(S, n) == UNION { [1..k -> S] : k \in 0..n }

(* The messages a caller sends as the last one of its list. *)
LastMessages ==
    { A2AMessage("user", ps, None) : ps \in SeqsUpTo(PartValues, MaxParts) }

(* An earlier turn of the conversation. *)
EarlierMessage ==
    A2AMessage("agent", <<MessagePart("text", Text(<<"a">>))>>, "task-0")

(* The message of the envelope probes. *)
PlainMessage ==
    A2AMessage("user", <<MessagePart("text", Text(<<"a">>))>>, None)

MessageLists ==
    { <<>> } \cup
    { [i \in 1..k |-> IF i = k THEN m ELSE EarlierMessage] :
        k \in 1..MaxMsgs, m \in LastMessages }

----------------------------------------------------------------------------
(* str.strip() *)

IsSpace(c) == c = " "

RECURSIVE LStrip(_)
LStrip(s) ==
    IF s = <<>> THEN <<>>
    ELSE IF IsSpace(Head(s)) THEN LStrip(Tail(s)) ELSE s

RECURSIVE RStrip(_)
RStrip(s) ==
    IF s = <<>> THEN <<>>
    ELSE IF IsSpace(s[Len(s)]) THEN RStrip(SubSeq(s, 1, Len(s) - 1)) ELSE s

Strip(s) == RStrip(LStrip(s))

(* truthiness of an Optional[str] *)
Truthy(t) == ~t.isNone /\ t.s # <<>>

----------------------------------------------------------------------------
(* OptimizerAgent.process_messages: text extraction *)

(* A plausible slip: the selected text is returned as sent, not stripped. *)
RECURSIVE ExtractTextUnstripped(_)
ExtractTextUnstripped(parts) ==
    IF parts = <<>> THEN <<>>
    ELSE IF Head(parts).kind = "text" /\ Truthy(Head(parts).text)
         THEN Head(parts).text.s
         ELSE ExtractTextUnstripped(Tail(parts))

(* next((p.text.strip() for p in user_msg.parts                            *)
(*       if p.kind == "text" and p.text), "")                              *)
RECURSIVE ExtractText(_)
ExtractText(parts) ==
    IF parts = <<>> THEN <<>>
    ELSE IF Head(parts).kind = "text" /\ Truthy(Head(parts).text)
         THEN Strip(Head(parts).text.s)
         ELSE ExtractText(Tail(parts))

NoMessages == "No messages provided"
NoTextContent == "No text content in message"

(* The ValueError process_messages raises before the provider call, or     *)
(* None when it goes on to the call.                                       *)
InputError(msgs) ==
    IF msgs = <<>> THEN NoMessages
    ELSE IF ExtractText(msgs[Len(msgs)].parts) = <<>> THEN NoTextContent
    ELSE None

(* context_id or str(uuid4()), task_id or str(uuid4()) *)
OrUuid(x) == IF x = None THEN "uuid4" ELSE x

----------------------------------------------------------------------------
(* OptimizerAgent._call_gemini_with_retry *)

(* The sentences of the code are written with U+2019 for the apostrophe.   *)
FallbackStatus == "Sorry, I couldn[U+2019]t simplify the text right now."
FallbackNetwork == "Sorry, I couldn[U+2019]t reach the simplification service."
FallbackGeneric == "Sorry, something went wrong while simplifying."

(* data["candidates"][0]["content"]["parts"][0]["text"] of a well-formed   *)
(* provider answer.                                                        *)
ProviderText == "PROVIDER TEXT"

(* What one POST to the provider comes to: HTTP 200 with a body that has   *)
(* the text, HTTP 200 with a body that is not JSON or lacks the path to    *)
(* the text, HTTP 429, another status, an httpx.RequestError.              *)
ProviderOutcomes == { "200 text", "200 malformed", "429", "500", "RequestError" }

(* await httpx._utils.sleep(wait): sleep is looked up in a private module  *)
(* of the httpx package, which is no part of this repository.  Where the   *)
(* installed package has the attribute the call suspends for wait seconds; *)
(* where it has not, the lookup raises AttributeError.                     *)
SleepOutcomes == { "slept", "AttributeError" }

NoCall == [kind |-> "none", v |-> ""]
Returned(text) == [kind |-> "return", v |-> text]
Raised(exc) == [kind |-> "raise", v |-> exc]

----------------------------------------------------------------------------
(* process_messages: the result *)

(* A plausible slip: the reply is put in front of the conversation. *)
HistoryPrepended(msgs, response_msg) == <<response_msg>> \o msgs

(* history = messages + [response_msg] *)
History(msgs, response_msg) == msgs \o <<response_msg>>

ResponseMsg(simplified, tid) ==
    A2AMessage("agent", <<MessagePart("text", Text(<<simplified>>))>>, tid)

Artifact(simplified) ==
    [name |-> "simplified_text",
     parts |-> <<MessagePart("text", Text(<<simplified>>))>>]

TaskResult(msgs, simplified, cid, tid) ==
    [id |-> tid,
     contextId |-> cid,
     status |-> [state |-> "completed", message |-> ResponseMsg(simplified, tid)],
     artifacts |-> <<Artifact(simplified)>>,
     history |-> History(msgs, ResponseMsg(simplified, tid))]

----------------------------------------------------------------------------
(* Requests *)

ContentTypes ==
    { "application/json", "application/json; charset=utf-8", "text/plain", "" }

(* content_type.startswith("application/json") *)
StartsWithJson(ct) ==
    ct \in { "application/json", "application/json; charset=utf-8" }

Params(shape, msgs, cid, tid) ==
    [shape |-> shape, messages |-> msgs, contextId |-> cid, taskId |-> tid]

(* params of a JSON body: absent, of neither shape, {"message": m},        *)
(* {"messages": [...], "contextId": c, "taskId": t}.                       *)
ParamsAbsent == Params("absent", <<>>, None, None)
ParamsInvalid == Params("invalid", <<>>, None, None)
MessageParams(m) == Params("message", <<m>>, None, None)
ExecuteParams(msgs, cid, tid) == Params("execute", msgs, cid, tid)

Body(form, jsonrpc, id, method, params) ==
    [form |-> form, jsonrpc |-> jsonrpc, id |-> id, method |-> method,
     params |-> params]

(* Bodies that are no JSON object: no bytes, bytes that are not JSON, a    *)
(* JSON array, a JSON number.                                              *)
OtherBody(form) == Body(form, "absent", JAbsent, "absent", ParamsAbsent)

EnvelopeBodies ==
    { OtherBody(f) : f \in { "empty", "notjson", "array", "number" } }
    \cup
    { Body("object", j, i, m, p) :
        j \in { "absent", "2.0", "1.0" },
        i \in { JAbsent, JNull, JStr("abc-1"), JNum("7") },
        m \in { "absent", "message/send", "execute", "does/not/exist" },
        p \in { ParamsAbsent, ParamsInvalid, MessageParams(PlainMessage),
                ExecuteParams(<<PlainMessage>>, "ctx-1", "task-1") } }

PayloadBodies ==
    { Body("object", "2.0", JStr("abc-1"), "message/send", MessageParams(m)) :
        m \in LastMessages }
    \cup
    { Body("object", "2.0", JStr("abc-1"), "execute", ExecuteParams(ms, None, None)) :
        ms \in MessageLists }

A2ARequests ==
    { [route |-> "a2a", contentType |-> ct, body |-> b] :
        ct \in ContentTypes, b \in EnvelopeBodies }
    \cup
    { [route |-> "a2a", contentType |-> "application/json", body |-> b] :
        b \in PayloadBodies }

(* Bodies of POST /optimize: not JSON, a JSON array, a JSON object whose   *)
(* text is absent, null, a number or a string.                             *)
OptimizeBodies ==
    { [form |-> f, text |-> [t |-> "absent", s |-> <<>>]] : f \in { "notjson", "array" } }
    \cup
    { [form |-> "object", text |-> [t |-> k, s |-> <<>>]] : k \in { "absent", "null", "num" } }
    \cup
    { [form |-> "object", text |-> [t |-> "str", s |-> s]] : s \in CallerStrings }

OptimizeRequests ==
    { [route |-> "optimize", contentType |-> "application/json", body |-> b] :
        b \in OptimizeBodies }

NoRequest == [route |-> "none"]

----------------------------------------------------------------------------
(* Responses *)

NoResponse == [route |-> "none"]

RpcError(status, id, code, message, details) ==
    [route |-> "a2a", status |-> status, id |-> id, kind |-> "error",
     code |-> code, message |-> message, details |-> details, result |-> <<>>]

(* JSONResponse(200, JSONRPCResponse(id=rpc_req.id, result=result)) *)
RpcResult(id, result) ==
    [route |-> "a2a", status |-> 200, id |-> id, kind |-> "result",
     code |-> 0, message |-> "", details |-> "", result |-> <<result>>]

(* return {"error": message} *)
RestError(message) ==
    [route |-> "optimize", status |-> 200, kind |-> "error",
     message |-> message, original |-> <<>>, optimized |-> ""]

(* return {"original": text, "optimized": simplified} *)
RestOk(text, simplified) ==
    [route |-> "optimize", status |-> 200, kind |-> "ok",
     message |-> "", original |-> text, optimized |-> simplified]

(* optimize_text has no handler of its own: an exception leaves it and the *)
(* framework answers 500.                                                  *)
RestUnhandled(exc) ==
    [route |-> "optimize", status |-> 500, kind |-> "unhandled",
     message |-> exc, original |-> <<>>, optimized |-> ""]

(* body.get("id") *)
BodyGetId(body) == IF body.id.t = "absent" THEN JNull ELSE body.id

(* A plausible slip: the catch-all answers without the request's id. *)
ErrIdNull(body) == JNull

(* err_id = body.get("id") if "body" in locals() and isinstance(body, dict) *)
(*          else None                                                       *)
ErrId(body) ==
    IF body.form = "object" THEN BodyGetId(body) ELSE JNull

(* except Exception as exc *)
CatchAll(body, exc) ==
    RpcError(500, ErrId(body), -32603, "Internal error", exc)

(* rpc_req = JSONRPCRequest of body: jsonrpc is "2.0", id a str, method one of the   *)
(* two literals, params of one of the two shapes.                          *)
SchemaValid(body) ==
    /\ body.jsonrpc = "2.0"
    /\ body.id.t = "str"
    /\ body.method \in { "message/send", "execute" }
    /\ body.params.shape \in { "message", "execute" }

(* a2a_optimizer up to the call of process_messages: the response, or      *)
(* NoResponse when the agent is to be called.                              *)
A2AEarly(req, agent) ==
    LET body == req.body IN
    IF ~StartsWithJson(req.contentType)
    THEN RpcError(400, JNull, -32600, "Content-Type must be application/json", "")
    ELSE IF body.form = "empty"
    THEN RpcError(400, JNull, -32600, "Empty request body", "")
    ELSE IF body.form = "notjson"
    THEN RpcError(400, JNull, -32600, "Invalid JSON in request body", "")
    ELSE IF body.form # "object"
    THEN CatchAll(body, "AttributeError")
    ELSE IF body.jsonrpc # "2.0" \/ body.id.t = "absent"
    THEN RpcError(400, BodyGetId(body), -32600, "Invalid JSON-RPC request", "")
    ELSE IF ~SchemaValid(body)
    THEN CatchAll(body, "ValidationError")
    ELSE IF body.method = "message/send"
    THEN IF body.params.shape # "message"
         THEN CatchAll(body, "Invalid params for method 'message/send'")
         ELSE IF agent = None
         THEN RpcError(500, body.id, -32603, "Optimizer agent not initialized", "")
         ELSE NoResponse
    ELSE IF body.method = "execute"
    THEN IF body.params.shape # "execute"
         THEN CatchAll(body, "Invalid params for method 'execute'")
         ELSE IF agent = None
         THEN RpcError(500, body.id, -32603, "Optimizer agent not initialized", "")
         ELSE NoResponse
    ELSE RpcError(400, body.id, -32601, "Method not found", "")

(* optimize_text up to the call of process_messages *)
OptimizeEarly(req, agent) ==
    LET body == req.body IN
    IF body.form = "notjson" THEN RestError("Invalid JSON")
    ELSE IF body.form # "object" THEN RestUnhandled("AttributeError")
    ELSE IF body.text.t \in { "null", "num" } THEN RestUnhandled("AttributeError")
    ELSE IF Strip(body.text.s) = <<>> THEN RestError("No text provided.")
    ELSE IF agent = None THEN RestError("Optimizer agent not initialized.")
    ELSE NoResponse

(* The messages handed to process_messages. *)
MessagesOf(req) ==
    IF req.route = "a2a" THEN req.body.params.messages
    ELSE <<A2AMessage("user", <<MessagePart("text", Text(Strip(req.body.text.s)))>>, None)>>

ContextIdOf(req) == IF req.route = "a2a" THEN req.body.params.contextId ELSE None
TaskIdOf(req) == IF req.route = "a2a" THEN req.body.params.taskId ELSE None

(* The handler after process_messages returned or raised. *)
Finish(req, msgs, cid, tid, ended) ==
    IF req.route = "a2a"
    THEN IF ended.kind = "raise"
         THEN CatchAll(req.body, ended.v)
         ELSE RpcResult(req.body.id, TaskResult(msgs, ended.v, cid, tid))
    ELSE IF ended.kind = "raise"
         THEN RestUnhandled(ended.v)
         ELSE LET result == TaskResult(msgs, ended.v, cid, tid) IN
              RestOk(Strip(req.body.text.s),
                     IF result.artifacts # <<>>
                     THEN result.artifacts[1].parts[1].text.s[1]
                     ELSE "Failed to simplify.")

----------------------------------------------------------------------------
(* The state machine *)

Init ==
    /\ optimizer_agent = None
    /\ pc = "idle"
    /\ request = NoRequest
    /\ messages = <<>>
    /\ task_id = None
    /\ context_id = None
    /\ input_text = <<>>
    /\ attempt = 0
    /\ wait = 0
    /\ outcomes = <<>>
    /\ posts = 0
    /\ waits = <<>>
    /\ invoked = FALSE
    /\ call = NoCall
    /\ task_result = <<>>
    /\ response = NoResponse

(* lifespan: optimizer_agent = OptimizerAgent() *)
Lifespan ==
    /\ pc = "idle"
    /\ optimizer_agent = None
    /\ optimizer_agent' = "agent"
    /\ UNCHANGED <<pc, request, messages, task_id, context_id, input_text,
                   attempt, wait, outcomes, posts, waits, invoked, call,
                   task_result, response>>

(* _call_gemini_with_retry has ended; process_messages builds its result   *)
(* or lets the exception pass, and the handler answers.                    *)
Complete(ended) ==
    /\ pc' = "done"
    /\ call' = ended
    /\ task_result' = IF ended.kind = "return"
                      THEN <<TaskResult(messages, ended.v, context_id, task_id)>>
                      ELSE <<>>
    /\ response' = Finish(request, messages, context_id, task_id, ended)

(* A request arrives and its handler runs to its first await of the        *)
(* provider, or to its response.                                           *)
Receive(req, early) ==
    /\ pc = "idle"
    /\ request' = req
    /\ UNCHANGED <<optimizer_agent, attempt, wait, outcomes, posts, waits,
                   call, task_result>>
    /\ IF early.route # "none"
       THEN /\ pc' = "done"
            /\ response' = early
            /\ invoked' = FALSE
            /\ UNCHANGED <<messages, task_id, context_id, input_text>>
       ELSE /\ invoked' = TRUE
            /\ messages' = MessagesOf(req)
            /\ context_id' = OrUuid(ContextIdOf(req))
            /\ task_id' = OrUuid(TaskIdOf(req))
            /\ IF InputError(MessagesOf(req)) # None
               THEN /\ pc' = "done"
                    /\ input_text' = <<>>
                    /\ response' = Finish(req, MessagesOf(req),
                                          OrUuid(ContextIdOf(req)),
                                          OrUuid(TaskIdOf(req)),
                                          Raised(InputError(MessagesOf(req))))
               ELSE /\ pc' = "post"
                    /\ input_text' =
                         ExtractText(MessagesOf(req)[Len(MessagesOf(req))].parts)
                    /\ UNCHANGED response

(* POST /a2a/optimizer *)
A2AOptimizer ==
    \E req \in A2ARequests : Receive(req, A2AEarly(req, optimizer_agent))

(* POST /optimize *)
OptimizeText ==
    \E req \in OptimizeRequests : Receive(req, OptimizeEarly(req, optimizer_agent))

(* One pass of the loop of _call_gemini_with_retry up to its sleep, its    *)
(* return or the next pass.                                                *)
Post ==
    /\ pc = "post"
    /\ \E o \in ProviderOutcomes :
        /\ posts' = posts + 1
        /\ outcomes' = Append(outcomes, o)
        /\ UNCHANGED <<optimizer_agent, request, messages, task_id, context_id,
                       input_text, waits, invoked>>
        /\ CASE o = "200 text" ->
                  /\ Complete(Returned(ProviderText))
                  /\ UNCHANGED <<attempt, wait>>
             [] o = "200 malformed" ->
                  /\ Complete(Raised("KeyError"))
                  /\ UNCHANGED <<attempt, wait>>
             [] o = "429" ->
                  /\ wait' = 2 ^ attempt
                  /\ pc' = "sleep"
                  /\ UNCHANGED <<attempt, call, task_result, response>>
             [] o = "500" ->
                  IF attempt = MaxRetries - 1
                  THEN /\ Complete(Returned(FallbackStatus))
                       /\ UNCHANGED <<attempt, wait>>
                  ELSE /\ attempt' = attempt + 1
                       /\ pc' = "post"
                       /\ UNCHANGED <<wait, call, task_result, response>>
             [] o = "RequestError" ->
                  IF attempt = MaxRetries - 1
                  THEN /\ Complete(Returned(FallbackNetwork))
                       /\ UNCHANGED <<attempt, wait>>
                  ELSE /\ wait' = 2 ^ attempt
                       /\ pc' = "sleep"
                       /\ UNCHANGED <<attempt, call, task_result, response>>

(* await httpx._utils.sleep(wait), then the next pass of the loop or, the  *)
(* loop over, the return after it.                                         *)
Sleep ==
    /\ pc = "sleep"
    /\ \E so \in SleepOutcomes :
        /\ UNCHANGED <<optimizer_agent, request, messages, task_id, context_id,
                       input_text, outcomes, posts, invoked, wait>>
        /\ IF so = "AttributeError"
           THEN /\ Complete(Raised("AttributeError"))
                /\ UNCHANGED <<attempt, waits>>
           ELSE /\ waits' = Append(waits, wait)
                /\ IF attempt + 1 < MaxRetries
                   THEN /\ attempt' = attempt + 1
                        /\ pc' = "post"
                        /\ UNCHANGED <<call, task_result, response>>
                   ELSE /\ Complete(Returned(FallbackGeneric))
                        /\ UNCHANGED attempt

(* The response is sent; the service awaits the next request. *)
NextRequest ==
    /\ pc = "done"
    /\ pc' = "idle"
    /\ request' = NoRequest
    /\ messages' = <<>>
    /\ task_id' = None
    /\ context_id' = None
    /\ input_text' = <<>>
    /\ attempt' = 0
    /\ wait' = 0
    /\ outcomes' = <<>>
    /\ posts' = 0
    /\ waits' = <<>>
    /\ invoked' = FALSE
    /\ call' = NoCall
    /\ task_result' = <<>>
    /\ response' = NoResponse
    /\ UNCHANGED optimizer_agent

Next ==
    \/ Lifespan
    \/ A2AOptimizer
    \/ OptimizeText
    \/ Post
    \/ Sleep
    \/ NextRequest

Spec == Init /\ [][Next]_vars

----------------------------------------------------------------------------
(* Properties *)

A2ADone == pc = "done" /\ request.route = "a2a"
OptimizeDone == pc = "done" /\ request.route = "optimize"

(* The provider was called for the request. *)
ProviderCalled == pc = "done" /\ posts > 0

(* C1: the provider cannot make the service report an error: whatever the  *)
(* provider answers over the attempts, _call_gemini_with_retry returns the *)
(* provider's text or a fallback text, the task is completed and both      *)
(* routes answer 200 with the result.                                      *)
C1_ProviderFailuresAbsorbed ==
    ProviderCalled =>
        /\ call.kind = "return"
        /\ call.v \in { ProviderText, FallbackStatus, FallbackNetwork, FallbackGeneric }
        /\ task_result # <<>>
        /\ task_result[1].status.state = "completed"
        /\ response.status = 200
        /\ response.kind \in { "result", "ok" }

(* The text a message carries: the stripped text of the first part of kind *)
(* text whose text is not empty once stripped; <<>> when there is none.    *)
RECURSIVE FirstNonBlankText(_)
FirstNonBlankText(parts) ==
    IF parts = <<>> THEN <<>>
    ELSE IF /\ Head(parts).kind = "text"
            /\ ~Head(parts).text.isNone
            /\ Strip(Head(parts).text.s) # <<>>
         THEN Strip(Head(parts).text.s)
         ELSE FirstNonBlankText(Tail(parts))

LastParts == messages[Len(messages)].parts

(* C2: for a non-empty message list the input text is the stripped text of *)
(* the first part of the last message that is of kind text and not blank,  *)
(* whatever parts come before it, and "No text content in message" is      *)
(* raised only when the last message has no such part.                     *)
C2_FirstNonBlankTextExtracted ==
    (pc = "done" /\ invoked /\ messages # <<>>) =>
        IF FirstNonBlankText(LastParts) = <<>>
        THEN response.kind = "error" /\ response.details = NoTextContent
        ELSE /\ input_text = FirstNonBlankText(LastParts)
             /\ ~(response.kind = "error" /\ response.details = NoTextContent)

(* C3: a JSON-RPC request with jsonrpc "2.0", an id and a method that is   *)
(* neither message/send nor execute is answered 400 with error -32601      *)
(* "Method not found" and the request's id (here with the id a string and  *)
(* params of a known shape, so that nothing else of the body is at fault). *)
C3_UnknownMethodNotFound ==
    ( /\ A2ADone
      /\ StartsWithJson(request.contentType)
      /\ request.body.form = "object"
      /\ request.body.jsonrpc = "2.0"
      /\ request.body.id.t = "str"
      /\ request.body.method = "does/not/exist"
      /\ request.body.params.shape \in { "message", "execute" } ) =>
        /\ response.status = 400
        /\ response.kind = "error"
        /\ response.code = -32601
        /\ response.message = "Method not found"
        /\ response.id = request.body.id

(* The request fails transport or envelope validation. *)
Malformed(req) ==
    \/ ~StartsWithJson(req.contentType)
    \/ req.body.form # "object"
    \/ req.body.jsonrpc # "2.0"
    \/ req.body.id.t = "absent"
    \/ req.body.method = "message/send" /\ req.body.params.shape # "message"
    \/ req.body.method = "execute" /\ req.body.params.shape # "execute"

(* C4: every request that fails transport or envelope validation is        *)
(* answered 400 with error -32600, and the agent is not invoked for it.    *)
C4_MalformedIsInvalidRequest ==
    (A2ADone /\ Malformed(request)) =>
        /\ response.status = 400
        /\ response.kind = "error"
        /\ response.code = -32600
        /\ ~invoked

(* C5: POST /optimize answers 200 to every request, with either original   *)
(* and optimized or an error message.                                      *)
C5_OptimizeAlways200 ==
    OptimizeDone =>
        /\ response.status = 200
        /\ response.kind \in { "ok", "error" }

AllRateLimited(os) == \A i \in DOMAIN os : os[i] = "429"

(* 2^i for the zero-based attempts i = 0 .. k-1 *)
Backoff(k) == [i \in 1..k |-> 2 ^ (i - 1)]

(* C6: when the provider answers 429 to the first k attempts, k below      *)
(* maxRetries, and 200 to the next, the call returns the provider's text   *)
(* after exactly k+1 POSTs, having waited 2^i after the 429 of attempt i:  *)
(* the call does not end on a 429 while attempts are left, and once the    *)
(* 200 has come the text, the POSTs and the waits are as said.             *)
C6_RateLimitRetriedWithBackoff ==
    ProviderCalled =>
        /\ ~(AllRateLimited(outcomes) /\ Len(outcomes) < MaxRetries)
        /\ \A k \in 0..(MaxRetries - 1) :
              ( /\ Len(outcomes) = k + 1
                /\ AllRateLimited(SubSeq(outcomes, 1, k))
                /\ outcomes[k + 1] = "200 text" ) =>
                  /\ call = Returned(ProviderText)
                  /\ posts = k + 1
                  /\ waits = Backoff(k)

NoneSucceeded(os) == \A i \in DOMAIN os : os[i] \notin { "200 text", "200 malformed" }

(* C7: when no attempt is answered 200 the call issues exactly maxRetries  *)
(* POSTs and returns the fallback sentence the last attempt selects:       *)
(* another status, a network failure, or 429.                              *)
C7_FallbackAfterExhaustedRetries ==
    (ProviderCalled /\ NoneSucceeded(outcomes)) =>
        /\ posts = MaxRetries
        /\ Len(outcomes) = MaxRetries
        /\ call.kind = "return"
        /\ outcomes[Len(outcomes)] = "500" =>
              call.v = "Sorry, I couldn't simplify the text right now."
        /\ outcomes[Len(outcomes)] = "RequestError" =>
              call.v = "Sorry, I couldn't reach the simplification service."
        /\ outcomes[Len(outcomes)] = "429" =>
              call.v = "Sorry, something went wrong while simplifying."

(* The id of the request body; null when the body yields none. *)
BodyId(req) ==
    IF req.body.form = "object" /\ req.body.id.t # "absent"
    THEN req.body.id
    ELSE JNull

(* C8 as stated: every response of POST /a2a/optimizer carries the id of   *)
(* the request body, and null only when the body yields no id.             *)
C8_IdAlwaysEchoed ==
    A2ADone => response.id = BodyId(request)

(* C8: every response of POST /a2a/optimizer to a request whose            *)
(* Content-Type is accepted carries the id of the request body, null only  *)
(* when the body yields none; a request whose Content-Type is rejected is  *)
(* answered with id null, its body unread.                                 *)
C8_IdEchoedOnceContentTypeAccepted ==
    A2ADone =>
        response.id = IF StartsWithJson(request.contentType)
                      THEN BodyId(request)
                      ELSE JNull

(* An exception raised under the provider call is answered 500 with the    *)
(* request's id.                                                           *)
C8_Witness ==
    /\ A2ADone
    /\ posts > 0
    /\ response.status = 500
    /\ response.id = JStr("abc-1")

EmptyInput(msgs) ==
    \/ msgs = <<>>
    \/ ~\E i \in DOMAIN msgs[Len(msgs)].parts :
          LET p == msgs[Len(msgs)].parts[i]
          IN  p.kind = "text" /\ ~p.text.isNone /\ Strip(p.text.s) # <<>>

(* C10: process_messages, given an empty list or a last message without    *)
(* text, raises before any POST to the provider and returns no result;     *)
(* POST /a2a/optimizer answers 500 with error -32603 "Internal error" and  *)
(* the message of the exception as data.details.                           *)
C10_EmptyInputRejected ==
    (pc = "done" /\ invoked /\ EmptyInput(messages)) =>
        /\ posts = 0
        /\ call = NoCall
        /\ task_result = <<>>
        /\ request.route = "a2a" =>
              /\ response.status = 500
              /\ response.kind = "error"
              /\ response.code = -32603
              /\ response.message = "Internal error"
              /\ response.details =
                    IF messages = <<>> THEN NoMessages ELSE NoTextContent
              /\ response.result = <<>>

(* A last message with a text part that is not empty was rejected for     *)
(* want of text.                                                           *)
C10_Witness ==
    /\ A2ADone
    /\ invoked
    /\ messages # <<>>
    /\ \E i \in DOMAIN LastParts :
          LastParts[i].kind = "text" /\ Truthy(LastParts[i].text)
    /\ response.details = NoTextContent

====
